---- MODULE Spec2Model ----
(***************************************************************************)
(* IndexedJS: a wrapper around the browser's IndexedDB.                    *)
(*                                                                         *)
(* Two source files are modelled:                                          *)
(*   src/unnamed/part_000   constructor(name), schema(), open(), in()      *)
(*                          (definitions prefixed v2_, state _schema, _in, *)
(*                          IDBOpenDBRequest, IDBDatabase)                 *)
(*   src/src/IndexedJS.js   constructor(options) + open(opts),             *)
(*                          verifyOptions, query, add, delete              *)
(* The host engine (IndexedDB) is the environment: it holds the databases, *)
(* fires upgradeneeded / success / error / complete events and throws the  *)
(* exceptions the IndexedDB standard prescribes.                           *)
(*                                                                         *)
(* JavaScript values: an optional value is a sequence of length <= 1       *)
(* (<<>> is undefined / null / false as the comment at its use says,       *)
(* <<v>> is the value v).  Number keys are 0..MaxKey: 0 is the falsy one.  *)
(***************************************************************************)
EXTENDS Integers, Sequences, FiniteSets, TLC

\* ------------------------------------------------------------------ bounds
MaxKey == 2        \* keys are the numbers 0..MaxKey
MaxStores == 2     \* longest `stores` array handed to schema()

\* ------------------------------------------------------------ value spaces
None == <<>>
Some(v) == <<v>>
Opt(S) == {None} \cup {Some(v) : v \in S}

Keys == 0..MaxKey
DBNames == {"A", "B", "null"}
StoreNames == {"S1", "S2"}
IndexNames == {"a", "b"}

\* JavaScript truthiness of a Number
Truthy(n) == n # 0

\* JavaScript `x || false` on an optional Number: 0 and undefined give false
OrFalse(x) == IF x # None /\ Truthy(x[1]) THEN x ELSE None

\* an `indexes` object: index name -> unique flag
IndexObjects ==
  { [n \in {"a"} |-> TRUE],
    [n \in {"b"} |-> FALSE] }

NoIndexes == [n \in {} |-> TRUE]

\* a store definition of a schema (README "stores.*"): name, keyPath,
\* autoIncrement, indexes (None: not given)
StoreDefs ==
  [name : StoreNames, keyPath : Opt({"k"}), autoIncrement : BOOLEAN,
   indexes : Opt(IndexObjects)]

RECURSIVE SeqsUpTo(_, _)
SeqsUpTo(S, n) ==
  IF n = 0 THEN {<<>>}
  ELSE LET shorter == SeqsUpTo(S, n - 1)
       IN  shorter \cup { Append(s, x) : s \in {t \in shorter : Len(t) = n - 1}, x \in S }

\* --------------------------------------------------------------- the host
\* An object store of the host: its key option, its indexes (name -> unique)
\* and the keys of the records it holds.
\* A database of the host: version 0 means "does not exist".
NoStores == [n \in {} |-> 0]

EmptyDB == [version |-> 0, stores |-> NoStores]

HostStore(setKey, idx, ks) == [key |-> setKey, indexes |-> idx, keys |-> ks]

\* function update that may extend the domain
Put(f, k, v) == [x \in (DOMAIN f) \cup {k} |-> IF x = k THEN v ELSE f[x]]
Drop(f, k) == [x \in (DOMAIN f) \ {k} |-> f[x]]

\* a database that exists before the page runs: version 1, one keyed store
\* holding a record for every non-zero key, with a non-unique index "a"
PreDB ==
  [version |-> 1,
   stores |-> [n \in {"S1"} |->
                 HostStore([keyPath |-> Some("k"), autoIncrement |-> FALSE],
                           [x \in {"a"} |-> FALSE], Keys \ {0})]]

\* the reference the upgrade handler's `var objStore` holds
NoObjStore == [ref |-> "undefined", name |-> "S1"]

\* db.deleteObjectStore(name): the store goes, and a reference to it dangles
deleteObjectStore(u, name) ==
  [u EXCEPT !.stores = Drop(u.stores, name),
            !.objStore = IF u.objStore.ref = "live" /\ u.objStore.name = name
                         THEN [u.objStore EXCEPT !.ref = "deleted"]
                         ELSE u.objStore]

\* objStore = db.createObjectStore(name, setKey)
createObjectStore(u, name, setKey) ==
  [u EXCEPT !.stores = Put(u.stores, name, HostStore(setKey, NoIndexes, {})),
            !.objStore = [ref |-> "live", name |-> name]]

\* for (var key in indexes) objStore.createIndex(key, key, {unique: indexes[key]})
\* throws a TypeError when objStore is undefined, an InvalidStateError when
\* the store it refers to was deleted and a ConstraintError when the store
\* already has an index of that name; the indexes object is never empty here
createIndexes(u, indexes) ==
  IF u.objStore.ref # "live"
       \/ (DOMAIN indexes) \cap (DOMAIN u.stores[u.objStore.name].indexes) # {}
  THEN [u EXCEPT !.threw = TRUE]
  ELSE LET st == u.stores[u.objStore.name]
           merged == [x \in (DOMAIN st.indexes) \cup (DOMAIN indexes) |->
                        IF x \in DOMAIN indexes THEN indexes[x] ELSE st.indexes[x]]
       IN  [u EXCEPT !.stores[u.objStore.name].indexes = merged]

VARIABLES
  host,              \* [DBNames -> database]: the host engine's databases
  \* ---- src/unnamed/part_000
  _schema,           \* this._schema (with `made`: the constructor returned)
  _in,               \* this._in
  IDBOpenDBRequest,  \* this.IDBOpenDBRequest: the open request and its state
  IDBDatabase,       \* this.IDBDatabase: None or Some(handle)
  v2ret,             \* the last call on the part_000 instance, its argument and outcome
  \* ---- src/src/IndexedJS.js
  opts,              \* [Inst -> this.opts] (with `made`: the instance exists)
  db,                \* [Inst -> this.db]
  IndexedJS_db,      \* IndexedJS.db, a property of the constructor function
  request,           \* [Inst -> the open request of the instance]
  call               \* the last query / add / delete call and its events

v2vars == <<_schema, _in, IDBOpenDBRequest, IDBDatabase, v2ret>>

v1vars == <<opts, db, IndexedJS_db, request, call>>

vars == <<host, _schema, _in, IDBOpenDBRequest, IDBDatabase, v2ret,
          opts, db, IndexedJS_db, request, call>>

\* a version change waits until the connections to the database are closed,
\* and IndexedJS never closes one
Connected(name) ==
  \/ IndexedJS_db # None /\ IndexedJS_db[1].db = name
  \/ IDBDatabase # None /\ IDBDatabase[1].db = name

\* ===================================================== src/unnamed/part_000

NoRequest == [state |-> "none", name |-> "A", version |-> None, onerror |-> FALSE]

\* the version the host opens the database at: the requested one, or when
\* none is requested the current one (1 for a database that does not exist)
EffectiveVersion(req, database) ==
  IF req.version # None THEN req.version[1]
  ELSE IF database.version = 0 THEN 1 ELSE database.version

InFlight(req) == req.state \in {"pending", "upgraded", "aborted"}

\* function IndexedJS(name)
v2_IndexedJS(name) ==
  /\ ~_schema.made
  /\ IF name = None
     THEN /\ v2ret' = [op |-> "new", res |-> "throw", arg |-> None]
          /\ UNCHANGED _schema
     ELSE /\ _schema' = [made |-> TRUE, database |-> name[1],
                         version |-> None, stores |-> None]
          /\ v2ret' = [op |-> "new", res |-> "this", arg |-> None]
  /\ UNCHANGED <<host, _in, IDBOpenDBRequest, IDBDatabase, v1vars>>

\* schema with the two assignments made as the tests pass: the stores are
\* recorded before the version is looked at
v2_schema_assignFirst(s) ==
  /\ _schema.made
  /\ _schema.stores # None => (s.stores.kind # "array" \/ OrFalse(s.version) = None)
  /\ IF s.stores.kind # "array"
     THEN /\ v2ret' = [op |-> "schema", res |-> "throw", arg |-> Some(s)]
          /\ UNCHANGED _schema
     ELSE IF OrFalse(s.version) = None
     THEN /\ _schema' = [_schema EXCEPT !.stores = Some(s.stores.arr)]
          /\ v2ret' = [op |-> "schema", res |-> "throw", arg |-> Some(s)]
     ELSE /\ _schema' = [_schema EXCEPT !.version = s.version,
                                        !.stores = Some(s.stores.arr)]
          /\ v2ret' = [op |-> "schema", res |-> "this", arg |-> Some(s)]
  /\ UNCHANGED <<host, _in, IDBOpenDBRequest, IDBDatabase, v1vars>>

\* IndexedJS.prototype.schema: s.stores is [kind, arr], s.version an
\* optional Number.  The schema is defined once (spec.md, DATA MODEL,
\* Lifecycle): a call that would replace a recorded schema is not explored.
v2_schema(s) ==
  /\ _schema.made
  /\ _schema.stores # None => (s.stores.kind # "array" \/ OrFalse(s.version) = None)
  /\ IF s.stores.kind # "array" \/ OrFalse(s.version) = None
     THEN /\ v2ret' = [op |-> "schema", res |-> "throw", arg |-> Some(s)]
          /\ UNCHANGED _schema
     ELSE /\ _schema' = [_schema EXCEPT !.version = s.version,
                                        !.stores = Some(s.stores.arr)]
          /\ v2ret' = [op |-> "schema", res |-> "this", arg |-> Some(s)]
  /\ UNCHANGED <<host, _in, IDBOpenDBRequest, IDBDatabase, v1vars>>

\* setKeyOption(options): None is `false`
setKeyOption(options) ==
  IF options.keyPath # None
  THEN Some([keyPath |-> options.keyPath, autoIncrement |-> FALSE])
  ELSE IF options.autoIncrement
       THEN Some([keyPath |-> None, autoIncrement |-> TRUE])
       ELSE None

\* IndexedJS.prototype.open: issues the open request; one request of the
\* instance is in flight at a time
v2_open ==
  /\ _schema.made
  /\ ~InFlight(IDBOpenDBRequest)
  /\ IDBOpenDBRequest' = [state |-> "pending", name |-> _schema.database,
                          version |-> _schema.version, onerror |-> FALSE]
  /\ v2ret' = [op |-> "open", res |-> "this", arg |-> None]
  /\ UNCHANGED <<host, _schema, _in, IDBDatabase, v1vars>>

\* one turn of the loop `for (i...)` of request.onupgradeneeded
v2_upgradeStore(u, def) ==
  LET u1 == IF def.name \in DOMAIN u.stores
            THEN deleteObjectStore(u, def.name) ELSE u
      setKey == setKeyOption(def)
      u2 == IF setKey # None
            THEN createObjectStore(u1, def.name, setKey[1]) ELSE u1
  IN  IF def.name \in DOMAIN u1.stores THEN u1
      ELSE IF def.indexes # None THEN createIndexes(u2, def.indexes[1]) ELSE u2

RECURSIVE v2_upgradeLoop(_, _, _)
v2_upgradeLoop(u, stores, i) ==
  IF i > Len(stores) \/ u.threw THEN u
  ELSE v2_upgradeLoop(v2_upgradeStore(u, stores[i]), stores, i + 1)

\* the body of request.onupgradeneeded on the stores of the database:
\* reading .length of undefined stores throws a TypeError
v2_upgrade(dbStores) ==
  LET u0 == [stores |-> dbStores, objStore |-> NoObjStore, threw |-> FALSE]
  IN  IF _schema.stores = None THEN [u0 EXCEPT !.threw = TRUE]
      ELSE v2_upgradeLoop(u0, _schema.stores[1], 1)

\* request.onupgradeneeded: fired by the host when the version opened is
\* above the database's; an exception in the handler aborts the upgrade,
\* the database is left as it was and the request fails
v2_onupgradeneeded ==
  /\ IDBOpenDBRequest.state = "pending"
  /\ LET name == IDBOpenDBRequest.name
         newv == EffectiveVersion(IDBOpenDBRequest, host[name])
         u == v2_upgrade(host[name].stores)
     IN  /\ newv > host[name].version
         /\ IF u.threw
            THEN /\ IDBOpenDBRequest' = [IDBOpenDBRequest EXCEPT !.state = "aborted"]
                 /\ UNCHANGED host
            ELSE /\ IDBOpenDBRequest' = [IDBOpenDBRequest EXCEPT !.state = "upgraded",
                                                                 !.onerror = TRUE]
                 /\ host' = [host EXCEPT ![name] = [version |-> newv, stores |-> u.stores]]
  /\ UNCHANGED <<_schema, _in, IDBDatabase, v2ret, v1vars>>

\* request.onsuccess: the handle is stored on the instance
v2_onsuccess ==
  /\ \/ IDBOpenDBRequest.state = "upgraded"
     \/ /\ IDBOpenDBRequest.state = "pending"
        /\ host[IDBOpenDBRequest.name].version > 0
        /\ EffectiveVersion(IDBOpenDBRequest, host[IDBOpenDBRequest.name])
             = host[IDBOpenDBRequest.name].version
  /\ IDBDatabase' = Some([db |-> IDBOpenDBRequest.name,
                          onerror |-> IDBOpenDBRequest.onerror])
  /\ IDBOpenDBRequest' = [IDBOpenDBRequest EXCEPT !.state = "success"]
  /\ UNCHANGED <<host, _schema, _in, v2ret, v1vars>>

\* request.onerror: after an aborted upgrade, a version below the
\* database's (VersionError) or any other failure of the host; it only logs
v2_onerror ==
  /\ IDBOpenDBRequest.state \in {"pending", "aborted"}
  /\ IDBOpenDBRequest' = [IDBOpenDBRequest EXCEPT !.state = "error"]
  /\ UNCHANGED <<host, _schema, _in, IDBDatabase, v2ret, v1vars>>

\* the inner loop of in() without its comparison: every name passes
v2_isGlobalStore_any(name, globalStores) == TRUE

\* the inner loop of in(): is `name` the name of a store of the schema
v2_isGlobalStore(name, globalStores) ==
  \E j \in 1..Len(globalStores) : globalStores[j].name = name

\* IndexedJS.prototype.in: a is [kind, arr]; kind "string" has the string
\* in arr[1], kind "other" is a value that is neither string nor array
v2_in(a) ==
  /\ _schema.made
  /\ LET stores == a.arr
     IN  IF a.kind \in {"undefined", "other"}
         THEN /\ _in' = Some(<<>>)
              /\ v2ret' = [op |-> "in", res |-> "false", arg |-> Some(a)]
         ELSE IF Len(stores) > 0 /\ _schema.stores = None
         THEN /\ _in' = Some(<<>>)
              /\ v2ret' = [op |-> "in", res |-> "throw", arg |-> Some(a)]
         ELSE /\ _in' = Some(SelectSeq(stores,
                               LAMBDA n : v2_isGlobalStore(n, _schema.stores[1])))
              /\ v2ret' = [op |-> "in", res |-> "this", arg |-> Some(a)]
  /\ UNCHANGED <<host, _schema, IDBOpenDBRequest, IDBDatabase, v1vars>>

\* ===================================================== src/src/IndexedJS.js

Inst == {1, 2}

NoOpts ==
  [made |-> FALSE, database |-> None, version |-> None, store |-> "S1",
   keyPath |-> None, autoIncrement |-> FALSE, indexes |-> None,
   onsuccess |-> FALSE, onerror |-> FALSE]

\* the open request of an instance: its state, the database name and the
\* version handed to indexedDB.open, whether the upgrade handler set
\* db.onerror on the connection, how often the caller's callbacks ran, and
\* the value of IndexedJS.db that the caller's onsuccess found when it ran
NoOpenRequest ==
  [state |-> "none", name |-> "A", version |-> 0, onerror |-> FALSE,
   nSuccess |-> 0, nError |-> 0, cbHandle |-> None]

\* how the host reads the name argument: null becomes the string "null"
DBNameOf(database) == IF database = None THEN "null" ELSE database[1]

\* IndexedJS.prototype.open(opts), up to the open request: the key option
\* of the store (None is `false`)
open_setKey(o) ==
  IF o.keyPath # None
  THEN Some([keyPath |-> o.keyPath, autoIncrement |-> FALSE])
  ELSE IF o.autoIncrement
       THEN Some([keyPath |-> None, autoIncrement |-> TRUE])
       ELSE None

\* function IndexedJS(options): fills this.opts, logs when the name or the
\* version is missing and calls this.open(this.opts) all the same.
\* indexedDB.open(name, null) converts the null version to 0 and throws a
\* TypeError: no request exists then.  o.version 0 is the falsy version.
IndexedJS(i, o) ==
  /\ ~opts[i].made
  /\ LET version == OrFalse(o.version)
     IN  /\ opts' = [opts EXCEPT ![i] =
                       [made |-> TRUE, database |-> o.name, version |-> version,
                        store |-> o.store, keyPath |-> o.keyPath,
                        autoIncrement |-> o.autoIncrement, indexes |-> o.indexes,
                        onsuccess |-> o.onsuccess, onerror |-> o.onerror]]
         /\ db' = [db EXCEPT ![i] = None]
         /\ request' = [request EXCEPT ![i] =
                          IF version = None
                          THEN [NoOpenRequest EXCEPT !.state = "threw"]
                          ELSE [NoOpenRequest EXCEPT !.state = "pending",
                                                     !.name = DBNameOf(o.name),
                                                     !.version = version[1]]]
  /\ UNCHANGED <<host, IndexedJS_db, call, v2vars>>

\* the body of request.onupgradeneeded on the stores of the database
open_upgrade(o, dbStores) ==
  LET u0 == [stores |-> dbStores, objStore |-> NoObjStore, threw |-> FALSE]
      u1 == IF o.store \in DOMAIN u0.stores
            THEN deleteObjectStore(u0, o.store) ELSE u0
      setKey == open_setKey(o)
      u2 == IF setKey # None
            THEN createObjectStore(u1, o.store, setKey[1]) ELSE u1
  IN  IF o.store \in DOMAIN u1.stores THEN u1
      ELSE IF o.indexes # None THEN createIndexes(u2, o.indexes[1]) ELSE u2

\* request.onupgradeneeded of instance i's open request
open_onupgradeneeded(i) ==
  /\ request[i].state = "pending"
  /\ LET name == request[i].name
         u == open_upgrade(opts[i], host[name].stores)
     IN  /\ request[i].version > host[name].version
         /\ ~Connected(name)
         /\ IF u.threw
            THEN /\ request' = [request EXCEPT ![i].state = "aborted"]
                 /\ UNCHANGED host
            ELSE /\ request' = [request EXCEPT ![i].state = "upgraded",
                                               ![i].onerror = TRUE]
                 /\ host' = [host EXCEPT ![name] =
                               [version |-> request[i].version, stores |-> u.stores]]
  /\ UNCHANGED <<opts, db, IndexedJS_db, call, v2vars>>

\* request.onsuccess with its two statements swapped: the caller's
\* onsuccess runs before the handle goes to IndexedJS.db
open_onsuccess_callbackFirst(i) ==
  /\ \/ request[i].state = "upgraded"
     \/ /\ request[i].state = "pending"
        /\ request[i].version = host[request[i].name].version
  /\ IndexedJS_db' = Some([db |-> request[i].name, onerror |-> request[i].onerror])
  /\ request' = [request EXCEPT
                   ![i].state = "success",
                   ![i].nSuccess = IF opts[i].onsuccess THEN @ + 1 ELSE @,
                   ![i].cbHandle = IF opts[i].onsuccess THEN IndexedJS_db ELSE @]
  /\ UNCHANGED <<host, opts, db, call, v2vars>>

\* request.onsuccess of instance i's open request: the handle goes to
\* IndexedJS.db, then the caller's onsuccess runs
open_onsuccess(i) ==
  /\ \/ request[i].state = "upgraded"
     \/ /\ request[i].state = "pending"
        /\ request[i].version = host[request[i].name].version
  /\ IndexedJS_db' = Some([db |-> request[i].name, onerror |-> request[i].onerror])
  /\ request' = [request EXCEPT
                   ![i].state = "success",
                   ![i].nSuccess = IF opts[i].onsuccess THEN @ + 1 ELSE @,
                   ![i].cbHandle = IF opts[i].onsuccess THEN IndexedJS_db' ELSE @]
  /\ UNCHANGED <<host, opts, db, call, v2vars>>

\* request.onerror of instance i's open request: after an aborted upgrade,
\* a version below the database's, or any other failure of the host
open_onerror(i) ==
  /\ request[i].state \in {"pending", "aborted"}
  /\ request' = [request EXCEPT
                   ![i].state = "error",
                   ![i].nError = IF opts[i].onerror THEN @ + 1 ELSE @]
  /\ UNCHANGED <<host, opts, db, IndexedJS_db, call, v2vars>>

\* ------------------------------------------------ options of the operations
\* cursor.include as the caller gives it: undefined, a Boolean (arr[1]) or
\* an array of Booleans
IncludeUndefined == [kind |-> "undefined", arr |-> <<>>]
IncludeBool(b) == [kind |-> "bool", arr |-> <<b>>]
IncludeArray(a) == [kind |-> "array", arr |-> a]

\* IndexedJS.prototype.verifyOptions, the cursor part: bound, only, lower,
\* upper and advance are defaulted with ||, include is left alone
verifyCursor(c) ==
  [bound |-> IF c.bound = "true" THEN "true" ELSE "null",
   only |-> OrFalse(c.only),
   lower |-> OrFalse(c.lower),
   upper |-> OrFalse(c.upper),
   advance |-> OrFalse(c.advance),
   include |-> c.include]

\* IndexedJS.prototype.verifyOptions: every option is defaulted with ||, so a
\* falsy value counts as not given.  None is `false` in index, key, cursor;
\* data not given becomes the empty array []
verifyOptions(o) ==
  [mode |-> IF o.mode = None THEN "readonly" ELSE o.mode[1],
   index |-> o.index,
   key |-> OrFalse(o.key),
   data |-> IF o.data = None THEN [given |-> FALSE, key |-> None]
            ELSE [given |-> TRUE, key |-> o.data[1]],
   cursor |-> IF o.cursor = None THEN None ELSE Some(verifyCursor(o.cursor[1])),
   onerror |-> o.onerror,
   oncomplete |-> o.oncomplete,
   onsuccess |-> o.onsuccess]

\* ---------------------------------------------------------------- key ranges
NoRange ==
  [kind |-> "none", lower |-> None, upper |-> None,
   lowerOpen |-> FALSE, upperOpen |-> FALSE, threw |-> FALSE]

\* IDBKeyRange.only(k)
RangeOnly(k) ==
  [NoRange EXCEPT !.kind = "only", !.lower = Some(k), !.upper = Some(k)]

\* IDBKeyRange.bound(l, u, lowerOpen, upperOpen): a DataError when l > u, or
\* when l = u and a bound is open
RangeBound(l, u, lo, uo) ==
  [kind |-> "bound", lower |-> Some(l), upper |-> Some(u),
   lowerOpen |-> lo, upperOpen |-> uo,
   threw |-> (l > u \/ (l = u /\ (lo \/ uo)))]

\* IDBKeyRange.lowerBound(l, open)
RangeLower(l, open) ==
  [NoRange EXCEPT !.kind = "lowerBound", !.lower = Some(l), !.lowerOpen = open]

\* IDBKeyRange.upperBound(u, open)
RangeUpper(u, open) ==
  [NoRange EXCEPT !.kind = "upperBound", !.upper = Some(u), !.upperOpen = open]

InRange(k, r) ==
  /\ r.lower # None => IF r.lowerOpen THEN k > r.lower[1] ELSE k >= r.lower[1]
  /\ r.upper # None => IF r.upperOpen THEN k < r.upper[1] ELSE k <= r.upper[1]

\* query, the include part: an array include is padded with false to two
\* entries, anything else becomes `include || false`
normalizeInclude(inc) ==
  IF inc.kind = "array"
  THEN IF Len(inc.arr) = 0 THEN IncludeArray(<<FALSE, FALSE>>)
       ELSE IF Len(inc.arr) = 1 THEN IncludeArray(<<inc.arr[1], FALSE>>)
       ELSE inc
  ELSE IncludeBool(inc.kind = "bool" /\ inc.arr[1])

\* !include[0] used for both bounds
NotIncludeAt_first(inc, n) == IF inc.kind = "array" THEN ~inc.arr[1] ELSE TRUE

\* the JavaScript value of !include[n]: indexing a Boolean gives undefined
NotIncludeAt(inc, n) == IF inc.kind = "array" THEN ~inc.arr[n + 1] ELSE TRUE

\* the JavaScript value of !include: an array is truthy
NotInclude(inc) == IF inc.kind = "array" THEN FALSE ELSE ~inc.arr[1]

\* cursorRange with only tested last
cursorRange_boundsFirst(c, inc) ==
  IF c.bound = "false" THEN NoRange
  ELSE IF c.lower # None /\ c.upper # None
       THEN RangeBound(c.lower[1], c.upper[1], NotIncludeAt(inc, 0), NotIncludeAt(inc, 1))
  ELSE IF c.lower # None THEN RangeLower(c.lower[1], NotInclude(inc))
  ELSE IF c.upper # None THEN RangeUpper(c.upper[1], NotInclude(inc))
  ELSE IF c.only # None THEN RangeOnly(c.only[1])
  ELSE NoRange

\* query, the chain that picks the key range of the cursor; c is the cursor
\* object after verifyOptions, inc the normalised include
cursorRange(c, inc) ==
  IF c.bound = "false" THEN NoRange
  ELSE IF c.only # None THEN RangeOnly(c.only[1])
  ELSE IF c.lower # None /\ c.upper # None
       THEN RangeBound(c.lower[1], c.upper[1], NotIncludeAt(inc, 0), NotIncludeAt(inc, 1))
  ELSE IF c.lower # None THEN RangeLower(c.lower[1], NotInclude(inc))
  ELSE IF c.upper # None THEN RangeUpper(c.upper[1], NotInclude(inc))
  ELSE NoRange

\* ------------------------------------------------------------ the call slot
NoReq == [kind |-> "none", key |-> None, index |-> None, range |-> NoRange,
          data |-> [given |-> FALSE, key |-> None]]

\* the last call: what was called on which instance with which options (raw:
\* as given, options: after verifyOptions), what it returned ("undefined",
\* "false" or "threw"), the transaction and the native request it created,
\* where the request stands, the key the cursor delivers next, how often
\* the caller's callbacks ran and the error was logged, the value of
\* IndexedJS.db when the call was made, the records the cursor has landed
\* on, and what `this` was in the caller's onsuccess and oncomplete
NoCall ==
  [op |-> "none", inst |-> 1, raw |-> None, options |-> None, ret |-> "none",
   tx |-> None, req |-> NoReq, phase |-> "idle", pos |-> None,
   nSuccess |-> 0, nError |-> 0, nComplete |-> 0, nLogged |-> 0,
   handle |-> None, visited |-> {}, thisSuccess |-> "none",
   thisComplete |-> "none"]

Returned(op, i, raw, options, ret) ==
  [NoCall EXCEPT !.op = op, !.inst = i, !.raw = raw, !.options = options,
                 !.ret = ret, !.handle = IndexedJS_db]

\* IndexedJS.db.transaction(storeArray, mode) on handle h
Transaction(h, store, mode) ==
  [db |-> h.db, store |-> store, mode |-> mode, dbOnerror |-> h.onerror]

Min(S) == CHOOSE x \in S : \A y \in S : x <= y
Max(S) == CHOOSE x \in S : \A y \in S : x >= y

\* the key a cursor over the keys ks delivers first in range r
FirstKey(ks, r) ==
  LET c == {k \in ks : InRange(k, r)}
  IN  IF c = {} THEN None ELSE Some(Min(c))

\* the key a cursor at key cur delivers after moving n places
RECURSIVE AdvanceKey(_, _, _, _)
AdvanceKey(ks, r, cur, n) ==
  LET c == {k \in ks : InRange(k, r) /\ k > cur}
  IN  IF c = {} THEN None
      ELSE IF n <= 1 THEN Some(Min(c))
      ELSE AdvanceKey(ks, r, Min(c), n - 1)

\* ------------------------------------------------------- IndexedJS.query
\* the cursor branch of query on transaction tx
queryCursor(base, tx, options) ==
  LET c == options.cursor[1]
      inc == normalizeInclude(c.include)
      keyRange == cursorRange(c, inc)
      ks == host[tx.db].stores[tx.store].keys
  IN  IF keyRange.threw
      THEN [base EXCEPT !.ret = "threw", !.tx = Some(tx)]
      ELSE [base EXCEPT !.ret = "undefined", !.tx = Some(tx),
                        !.options = Some([options EXCEPT !.cursor = Some([c EXCEPT !.include = inc])]),
                        !.req = [NoReq EXCEPT !.kind = "openCursor", !.range = keyRange],
                        !.phase = "pending",
                        !.pos = FirstKey(ks, keyRange)]

\* queryGet with the two tests swapped: the index is looked at first
queryGet_indexFirst(base, tx, options) ==
  IF options.index # None
  THEN IF options.index[1].name \notin DOMAIN host[tx.db].stores[tx.store].indexes
       THEN [base EXCEPT !.ret = "threw", !.tx = Some(tx)]
       ELSE [base EXCEPT !.ret = "undefined", !.tx = Some(tx),
                         !.req = [NoReq EXCEPT !.kind = "indexGet", !.index = options.index],
                         !.phase = "pending"]
  ELSE IF options.key # None
  THEN [base EXCEPT !.ret = "undefined", !.tx = Some(tx),
                    !.req = [NoReq EXCEPT !.kind = "get", !.key = options.key],
                    !.phase = "pending"]
  ELSE [base EXCEPT !.ret = "undefined", !.tx = Some(tx)]

\* the key / index branch of query on transaction tx: objStore.index(name)
\* throws a NotFoundError when the store has no index of that name
queryGet(base, tx, options) ==
  IF options.key # None
  THEN [base EXCEPT !.ret = "undefined", !.tx = Some(tx),
                    !.req = [NoReq EXCEPT !.kind = "get", !.key = options.key],
                    !.phase = "pending"]
  ELSE IF options.index # None
  THEN IF options.index[1].name \notin DOMAIN host[tx.db].stores[tx.store].indexes
       THEN [base EXCEPT !.ret = "threw", !.tx = Some(tx)]
       ELSE [base EXCEPT !.ret = "undefined", !.tx = Some(tx),
                         !.req = [NoReq EXCEPT !.kind = "indexGet", !.index = options.index],
                         !.phase = "pending"]
  ELSE [base EXCEPT !.ret = "undefined", !.tx = Some(tx)]

\* queryDispatch with the key / index branch tested before the cursor branch
queryDispatch_keyFirst(base, tx, options) ==
  IF options.key # None \/ options.index # None THEN queryGet(base, tx, options)
  ELSE IF options.cursor # None THEN queryCursor(base, tx, options)
  ELSE [base EXCEPT !.ret = "undefined", !.tx = Some(tx)]

\* query, the search precedence: cursor, key, index
queryDispatch(base, tx, options) ==
  IF options.cursor # None THEN queryCursor(base, tx, options)
  ELSE IF options.key # None \/ options.index # None THEN queryGet(base, tx, options)
  ELSE [base EXCEPT !.ret = "undefined", !.tx = Some(tx)]

\* the store an operation works on: storeArray, or this.opts.store
StoreOf(i, storeArray) == IF storeArray = None THEN opts[i].store ELSE storeArray[1]

\* IndexedJS.db.transaction throws a NotFoundError for a store the database
\* does not have
CanTransact(h, store) == store \in DOMAIN host[h.db].stores

\* queryCall without the early return for options that give nothing to
\* search for
queryCall_noEarlyReturn(i, queryOptions, storeArray) ==
  IF queryOptions = None THEN Returned("query", i, None, None, "threw")
  ELSE
    LET options == verifyOptions(queryOptions[1])
        store == StoreOf(i, storeArray)
        base == Returned("query", i, queryOptions, Some(options), "undefined")
    IN  IF IndexedJS_db = None THEN base
        ELSE IF ~CanTransact(IndexedJS_db[1], store) THEN [base EXCEPT !.ret = "threw"]
        ELSE queryDispatch(base, Transaction(IndexedJS_db[1], store, options.mode), options)

\* IndexedJS.prototype.query(queryOptions, storeArray); queryOptions None is
\* a call without options, on which verifyOptions throws a TypeError
queryCall(i, queryOptions, storeArray) ==
  IF queryOptions = None THEN Returned("query", i, None, None, "threw")
  ELSE
    LET options == verifyOptions(queryOptions[1])
        store == StoreOf(i, storeArray)
        base == Returned("query", i, queryOptions, Some(options), "undefined")
    IN  IF ~(options.key # None \/ options.index # None \/ options.cursor # None)
        THEN [base EXCEPT !.ret = "false"]
        ELSE IF IndexedJS_db = None THEN base
        ELSE IF ~CanTransact(IndexedJS_db[1], store) THEN [base EXCEPT !.ret = "threw"]
        ELSE queryDispatch(base, Transaction(IndexedJS_db[1], store, options.mode), options)

query(i, queryOptions, storeArray) ==
  /\ opts[i].made
  /\ call.op = "none"
  /\ call' = queryCall(i, queryOptions, storeArray)
  /\ UNCHANGED <<host, opts, db, IndexedJS_db, request, v2vars>>

\* --------------------------------------------------------- IndexedJS.add
\* objStore.put(data) throws a DataError when the store has a key path and
\* the data carries no key
CanPut(tx, data) ==
  host[tx.db].stores[tx.store].key.keyPath # None => data.key # None

\* the JavaScript truthiness of options.data after verifyOptions: an object
\* and the empty array are both truthy
DataTruthy(data) == TRUE

\* addCall with the transaction opened in options.mode
addCall_optionsMode(i, addOptions, storeArray) ==
  IF addOptions = None THEN Returned("add", i, None, None, "threw")
  ELSE
    LET options == verifyOptions(addOptions[1])
        store == StoreOf(i, storeArray)
        base == Returned("add", i, addOptions, Some(options), "undefined")
    IN  IF ~DataTruthy(options.data) THEN [base EXCEPT !.ret = "false"]
        ELSE IF IndexedJS_db = None THEN base
        ELSE IF ~CanTransact(IndexedJS_db[1], store) THEN [base EXCEPT !.ret = "threw"]
        ELSE LET tx == Transaction(IndexedJS_db[1], store, options.mode)
             IN  IF ~CanPut(tx, options.data)
                 THEN [base EXCEPT !.ret = "threw", !.tx = Some(tx)]
                 ELSE [base EXCEPT !.tx = Some(tx),
                                   !.req = [NoReq EXCEPT !.kind = "put", !.data = options.data],
                                   !.phase = "pending"]

\* IndexedJS.prototype.add(addOptions, storeArray)
addCall(i, addOptions, storeArray) ==
  IF addOptions = None THEN Returned("add", i, None, None, "threw")
  ELSE
    LET options == verifyOptions(addOptions[1])
        store == StoreOf(i, storeArray)
        base == Returned("add", i, addOptions, Some(options), "undefined")
    IN  IF ~DataTruthy(options.data) THEN [base EXCEPT !.ret = "false"]
        ELSE IF IndexedJS_db = None THEN base
        ELSE IF ~CanTransact(IndexedJS_db[1], store) THEN [base EXCEPT !.ret = "threw"]
        ELSE LET tx == Transaction(IndexedJS_db[1], store, "readwrite")
             IN  IF ~CanPut(tx, options.data)
                 THEN [base EXCEPT !.ret = "threw", !.tx = Some(tx)]
                 ELSE [base EXCEPT !.tx = Some(tx),
                                   !.req = [NoReq EXCEPT !.kind = "put", !.data = options.data],
                                   !.phase = "pending"]

add(i, addOptions, storeArray) ==
  /\ opts[i].made
  /\ call.op = "none"
  /\ call' = addCall(i, addOptions, storeArray)
  /\ UNCHANGED <<host, opts, db, IndexedJS_db, request, v2vars>>

\* ------------------------------------------------------ IndexedJS.delete
\* deleteCall without the test of IndexedJS.db: with no handle stored it
\* works on the database of the instance's open request
deleteCall_noHandleTest(i, deleteOptions, storeArray) ==
  IF deleteOptions = None THEN Returned("delete", i, None, None, "threw")
  ELSE
    LET options == verifyOptions(deleteOptions[1])
        store == StoreOf(i, storeArray)
        base == Returned("delete", i, deleteOptions, Some(options), "undefined")
        h == IF IndexedJS_db = None
             THEN [db |-> request[i].name, onerror |-> FALSE]
             ELSE IndexedJS_db[1]
    IN  IF options.key = None THEN [base EXCEPT !.ret = "false"]
        ELSE IF ~CanTransact(h, store) THEN [base EXCEPT !.ret = "threw"]
        ELSE [base EXCEPT !.tx = Some(Transaction(h, store, "readwrite")),
                          !.req = [NoReq EXCEPT !.kind = "delete", !.key = options.key],
                          !.phase = "pending"]

\* IndexedJS.prototype.delete(deleteOptions, storeArray)
deleteCall(i, deleteOptions, storeArray) ==
  IF deleteOptions = None THEN Returned("delete", i, None, None, "threw")
  ELSE
    LET options == verifyOptions(deleteOptions[1])
        store == StoreOf(i, storeArray)
        base == Returned("delete", i, deleteOptions, Some(options), "undefined")
    IN  IF options.key = None THEN [base EXCEPT !.ret = "false"]
        ELSE IF IndexedJS_db = None THEN base
        ELSE IF ~CanTransact(IndexedJS_db[1], store) THEN [base EXCEPT !.ret = "threw"]
        ELSE [base EXCEPT !.tx = Some(Transaction(IndexedJS_db[1], store, "readwrite")),
                          !.req = [NoReq EXCEPT !.kind = "delete", !.key = options.key],
                          !.phase = "pending"]

delete(i, deleteOptions, storeArray) ==
  /\ opts[i].made
  /\ call.op = "none"
  /\ call' = deleteCall(i, deleteOptions, storeArray)
  /\ UNCHANGED <<host, opts, db, IndexedJS_db, request, v2vars>>

\* ------------------------------------------- events of the last operation
\* One operation is followed at a time: when its events are over the page
\* forgets it and is free to call the next one.
settled ==
  /\ call.op # "none"
  /\ call.phase \notin {"pending", "reqdone"}
  /\ call' = NoCall
  /\ UNCHANGED <<host, opts, db, IndexedJS_db, request, v2vars>>

Pending(op, kinds) ==
  call.op = op /\ call.phase = "pending" /\ call.req.kind \in kinds

\* an error event that no handler of the request stopped bubbles to the
\* transaction (no handler) and to the database, whose onerror was set by
\* the upgrade handler of the open request and logs
BubbleLogged == IF call.tx[1].dbOnerror THEN 1 ELSE 0

\* cursor.onsuccess that always calls continue()
query_cursor_onsuccess_continue ==
  /\ Pending("query", {"openCursor"})
  /\ LET options == call.options[1]
         ks == host[call.tx[1].db].stores[call.tx[1].store].keys
     IN  IF call.pos = None
         THEN call' = [call EXCEPT !.phase = "reqdone"]
         ELSE call' = [call EXCEPT
                        !.visited = @ \cup {call.pos[1]},
                        !.nSuccess = IF options.onsuccess THEN @ + 1 ELSE @,
                        !.thisSuccess = IF options.onsuccess THEN "cursor" ELSE @,
                        !.pos = AdvanceKey(ks, call.req.range, call.pos[1], 1)]
  /\ UNCHANGED <<host, opts, db, IndexedJS_db, request, v2vars>>

\* query: cursor.onsuccess; the result is the cursor at call.pos, or null
\* when the range is exhausted
query_cursor_onsuccess ==
  /\ Pending("query", {"openCursor"})
  /\ LET options == call.options[1]
         ks == host[call.tx[1].db].stores[call.tx[1].store].keys
     IN  IF call.pos = None
         THEN call' = [call EXCEPT !.phase = "reqdone"]
         ELSE call' = [call EXCEPT
                        !.visited = @ \cup {call.pos[1]},
                        !.nSuccess = IF options.onsuccess THEN @ + 1 ELSE @,
                        !.thisSuccess = IF options.onsuccess THEN "cursor" ELSE @,
                        !.pos = IF options.cursor[1].advance # None
                                THEN AdvanceKey(ks, call.req.range, call.pos[1],
                                                options.cursor[1].advance[1])
                                ELSE AdvanceKey(ks, call.req.range, call.pos[1], 1)]
  /\ UNCHANGED <<host, opts, db, IndexedJS_db, request, v2vars>>

\* query: request.onsuccess of a get by key or by index
query_request_onsuccess ==
  /\ Pending("query", {"get", "indexGet"})
  /\ call' = [call EXCEPT
               !.nSuccess = IF call.options[1].onsuccess THEN @ + 1 ELSE @,
               !.thisSuccess = IF call.options[1].onsuccess THEN "result" ELSE @,
               !.phase = "reqdone"]
  /\ UNCHANGED <<host, opts, db, IndexedJS_db, request, v2vars>>

\* query: the host fails the request; query sets no onerror handler on the
\* request, the cursor or the transaction
query_request_error ==
  /\ Pending("query", {"get", "indexGet", "openCursor"})
  /\ call' = [call EXCEPT !.nLogged = @ + BubbleLogged, !.phase = "failed"]
  /\ UNCHANGED <<host, opts, db, IndexedJS_db, request, v2vars>>

\* query: transaction.oncomplete of a cursor query
query_cursor_oncomplete ==
  /\ call.op = "query" /\ call.phase = "reqdone" /\ call.req.kind = "openCursor"
  /\ call' = [call EXCEPT
               !.nComplete = IF call.options[1].oncomplete THEN @ + 1 ELSE @,
               !.thisComplete = IF call.options[1].oncomplete THEN "options" ELSE @,
               !.phase = "complete"]
  /\ UNCHANGED <<host, opts, db, IndexedJS_db, request, v2vars>>

\* query: transaction.oncomplete of a key or index query
query_request_oncomplete ==
  /\ call.op = "query" /\ call.phase = "reqdone"
  /\ call.req.kind \in {"get", "indexGet"}
  /\ call' = [call EXCEPT
               !.nComplete = IF call.options[1].oncomplete THEN @ + 1 ELSE @,
               !.thisComplete = IF call.options[1].oncomplete THEN "options" ELSE @,
               !.phase = "complete"]
  /\ UNCHANGED <<host, opts, db, IndexedJS_db, request, v2vars>>

\* the keys of the store after put(data): the key of the data, or for a
\* store with a key generator and no key path the next key (up to MaxKey)
KeysAfterPut(st, data) ==
  IF st.key.keyPath # None THEN st.keys \cup {data.key[1]}
  ELSE LET next == Max(st.keys \cup {0}) + 1
       IN  IF next <= MaxKey THEN st.keys \cup {next} ELSE st.keys

\* request.onsuccess of add that also calls the caller's oncomplete
add_request_onsuccess_completes ==
  /\ Pending("add", {"put"})
  /\ LET tx == call.tx[1]
     IN  host' = [host EXCEPT ![tx.db].stores[tx.store].keys =
                    KeysAfterPut(host[tx.db].stores[tx.store], call.req.data)]
  /\ call' = [call EXCEPT
               !.nSuccess = IF call.options[1].onsuccess THEN @ + 1 ELSE @,
               !.thisSuccess = IF call.options[1].onsuccess THEN "result" ELSE @,
               !.nComplete = IF call.options[1].oncomplete THEN @ + 1 ELSE @,
               !.thisComplete = IF call.options[1].oncomplete THEN "options" ELSE @,
               !.phase = "reqdone"]
  /\ UNCHANGED <<opts, db, IndexedJS_db, request, v2vars>>

\* add: request.onsuccess
add_request_onsuccess ==
  /\ Pending("add", {"put"})
  /\ LET tx == call.tx[1]
     IN  host' = [host EXCEPT ![tx.db].stores[tx.store].keys =
                    KeysAfterPut(host[tx.db].stores[tx.store], call.req.data)]
  /\ call' = [call EXCEPT
               !.nSuccess = IF call.options[1].onsuccess THEN @ + 1 ELSE @,
               !.thisSuccess = IF call.options[1].onsuccess THEN "result" ELSE @,
               !.phase = "reqdone"]
  /\ UNCHANGED <<opts, db, IndexedJS_db, request, v2vars>>

\* add: request.onerror
add_request_onerror ==
  /\ Pending("add", {"put"})
  /\ call' = [call EXCEPT
               !.nError = IF call.options[1].onerror THEN @ + 1 ELSE @,
               !.nLogged = (IF call.options[1].onerror THEN @ ELSE @ + 1) + BubbleLogged,
               !.phase = "failed"]
  /\ UNCHANGED <<host, opts, db, IndexedJS_db, request, v2vars>>

\* add: transaction.oncomplete
add_oncomplete ==
  /\ call.op = "add" /\ call.phase = "reqdone"
  /\ call' = [call EXCEPT
               !.nComplete = IF call.options[1].oncomplete THEN @ + 1 ELSE @,
               !.thisComplete = IF call.options[1].oncomplete THEN "options" ELSE @,
               !.phase = "complete"]
  /\ UNCHANGED <<host, opts, db, IndexedJS_db, request, v2vars>>

\* delete: the request succeeds; delete sets no onsuccess handler
delete_request_success ==
  /\ Pending("delete", {"delete"})
  /\ LET tx == call.tx[1]
     IN  host' = [host EXCEPT ![tx.db].stores[tx.store].keys = @ \ {call.req.key[1]}]
  /\ call' = [call EXCEPT !.phase = "reqdone"]
  /\ UNCHANGED <<opts, db, IndexedJS_db, request, v2vars>>

\* delete: request.onerror
delete_request_onerror ==
  /\ Pending("delete", {"delete"})
  /\ call' = [call EXCEPT
               !.nError = IF call.options[1].onerror THEN @ + 1 ELSE @,
               !.nLogged = (IF call.options[1].onerror THEN @ ELSE @ + 1) + BubbleLogged,
               !.phase = "failed"]
  /\ UNCHANGED <<host, opts, db, IndexedJS_db, request, v2vars>>

\* delete: transaction.oncomplete
delete_oncomplete ==
  /\ call.op = "delete" /\ call.phase = "reqdone"
  /\ call' = [call EXCEPT
               !.nComplete = IF call.options[1].oncomplete THEN @ + 1 ELSE @,
               !.thisComplete = IF call.options[1].oncomplete THEN "options" ELSE @,
               !.phase = "complete"]
  /\ UNCHANGED <<host, opts, db, IndexedJS_db, request, v2vars>>

\* ------------------------------------------------------------------ inputs
SchemaStoresInputs ==
  {[kind |-> "undefined", arr |-> <<>>], [kind |-> "other", arr |-> <<>>]}
    \cup {[kind |-> "array", arr |-> s] : s \in SeqsUpTo(StoreDefs, MaxStores)}

\* the version numbers a schema asks for (0 is the falsy one); PreDB is at 1
SchemaVersions == {0, 2}

\* every array of store definitions with a version, and the inputs schema()
\* rejects: stores that are no array, a missing or zero version
SchemaInputs ==
  { s \in [stores : SchemaStoresInputs, version : Opt(SchemaVersions)] :
      \/ s.version = Some(2)
      \/ Len(s.stores.arr) = 0 }

\* schemas over plain keyed stores, for the calls of in()
InSchemaInputs ==
  { s \in SchemaInputs :
      \A j \in 1..Len(s.stores.arr) :
         /\ s.stores.arr[j].keyPath # None
         /\ ~s.stores.arr[j].autoIncrement
         /\ s.stores.arr[j].indexes = None }

InInputs ==
  {[kind |-> "undefined", arr |-> <<>>], [kind |-> "other", arr |-> <<>>]}
    \cup {[kind |-> "string", arr |-> <<n>>] : n \in StoreNames \cup {"X"}}
    \cup {[kind |-> "array", arr |-> s] : s \in SeqsUpTo(StoreNames \cup {"X"}, 2)}

\* database "A" exists or not when the page starts
HostInit == host \in {[n \in DBNames |-> IF n = "A" THEN d ELSE EmptyDB] : d \in {EmptyDB, PreDB}}

v2Init ==
  /\ _schema = [made |-> FALSE, database |-> "A", version |-> None, stores |-> None]
  /\ _in = None
  /\ IDBOpenDBRequest = NoRequest
  /\ IDBDatabase = None
  /\ v2ret = [op |-> "none", res |-> "none", arg |-> None]

\* ------------------------------------------- inputs of src/src/IndexedJS.js
CtorInput(name, version, keyPath, autoIncrement, indexes, onsuccess, onerror) ==
  [name |-> name, version |-> version, store |-> "S1", keyPath |-> keyPath,
   autoIncrement |-> autoIncrement, indexes |-> indexes,
   onsuccess |-> onsuccess, onerror |-> onerror]

IndexA == [n \in {"a"} |-> TRUE]

\* one instance: a keyed store with an index, a store with a key generator,
\* a store with neither, a missing name, a missing version
CtorInputsOps ==
  { CtorInput(Some("A"), Some(1), Some("k"), FALSE, Some(IndexA), FALSE, FALSE),
    CtorInput(Some("A"), Some(1), None, TRUE, None, FALSE, FALSE),
    CtorInput(Some("A"), Some(2), None, FALSE, None, FALSE, FALSE),
    CtorInput(None, Some(1), Some("k"), TRUE, None, FALSE, FALSE),
    CtorInput(Some("A"), None, Some("k"), FALSE, None, FALSE, FALSE) }

\* two instances: each opens database "A" or "B", with or without callbacks
CtorInputsTwo ==
  { CtorInput(Some(n), Some(1), Some("k"), FALSE, Some(IndexA), s, e) :
      n \in {"A", "B"}, s \in BOOLEAN, e \in BOOLEAN }

PlainCursor ==
  [bound |-> "undefined", only |-> None, lower |-> None, upper |-> None,
   include |-> IncludeUndefined, advance |-> None]

PlainOptions ==
  [mode |-> None, index |-> None, key |-> None, data |-> None, cursor |-> None,
   onerror |-> FALSE, oncomplete |-> FALSE, onsuccess |-> FALSE]

IndexInputs == {[name |-> n, value |-> 1] : n \in IndexNames}

\* cursor objects: every bound / only / lower / upper
CursorInputs ==
  { [PlainCursor EXCEPT !.bound = b, !.only = o, !.lower = l, !.upper = u] :
      b \in {"undefined", "false", "true"},
      o \in Opt(Keys), l \in Opt(Keys), u \in Opt(Keys) }

\* cursor objects: the include and advance settings of a bounded cursor
IncludeInputs ==
  {IncludeUndefined} \cup {IncludeBool(b) : b \in BOOLEAN}
    \cup {IncludeArray(a) : a \in SeqsUpTo(BOOLEAN, 2)}

CursorStepInputs ==
  { [PlainCursor EXCEPT !.lower = l, !.upper = u, !.include = inc, !.advance = a] :
      l \in {None, Some(1)}, u \in {None, Some(MaxKey)},
      inc \in IncludeInputs, a \in {None, Some(0), Some(2)} }

Modes == {"readonly", "readwrite"}

CallbackInputs ==
  { [PlainOptions EXCEPT !.onerror = e, !.oncomplete = c, !.onsuccess = s] :
      e \in BOOLEAN, c \in BOOLEAN, s \in BOOLEAN }

\* the four kinds of query: nothing to search for, a key, an index, a cursor
QueryKinds ==
  { PlainOptions,
    [PlainOptions EXCEPT !.key = Some(1)],
    [PlainOptions EXCEPT !.index = Some([name |-> "a", value |-> 1])],
    [PlainOptions EXCEPT !.cursor = Some(PlainCursor)] }

\* the options query is called with: every choice of key and index, alone
\* and with a cursor; every cursor object, alone and with a key and an
\* index; every choice of mode and callbacks on the four kinds of query;
\* the stepping cursors with callbacks
QueryInputs ==
  { [PlainOptions EXCEPT !.key = k, !.index = x, !.cursor = c] :
      k \in Opt(Keys), x \in Opt(IndexInputs),
      c \in {None, Some(PlainCursor), Some([PlainCursor EXCEPT !.bound = "false"])} }
  \cup
  { [q EXCEPT !.cursor = Some(c)] :
      q \in { PlainOptions,
              [PlainOptions EXCEPT !.key = Some(1),
                                   !.index = Some([name |-> "a", value |-> 1])] },
      c \in CursorInputs \cup CursorStepInputs }
  \cup
  { [cb EXCEPT !.mode = m, !.key = q.key, !.index = q.index, !.cursor = q.cursor] :
      cb \in CallbackInputs, m \in Opt(Modes), q \in QueryKinds }
  \cup
  { [PlainOptions EXCEPT !.cursor = Some(c), !.onsuccess = s, !.oncomplete = TRUE] :
      c \in CursorStepInputs, s \in BOOLEAN }

\* the options add is called with: data not given, an object without key,
\* an object with a key
AddInputs ==
  { [cb EXCEPT !.mode = m, !.data = d] :
      cb \in CallbackInputs, m \in Opt(Modes), d \in Opt(Opt(Keys)) }

DeleteInputs ==
  { [cb EXCEPT !.mode = m, !.key = k] :
      cb \in CallbackInputs, m \in Opt(Modes), k \in Opt(Keys) }

StoreArrayInputs == Opt({"S1", "S2"})

\* the operations of two instances: a get, a cursor, a put and a delete
QueryInputsTwo ==
  { [PlainOptions EXCEPT !.key = Some(1), !.onsuccess = TRUE],
    [PlainOptions EXCEPT !.cursor = Some(PlainCursor), !.onsuccess = TRUE] }
AddInputsTwo == { [PlainOptions EXCEPT !.data = Some(Some(1))] }
DeleteInputsTwo == { [PlainOptions EXCEPT !.key = Some(1)] }

v1Init ==
  /\ opts = [i \in Inst |-> NoOpts]
  /\ db = [i \in Inst |-> None]
  /\ IndexedJS_db = None
  /\ request = [i \in Inst |-> NoOpenRequest]
  /\ call = NoCall

Init == HostInit /\ v2Init /\ v1Init


NextSchema ==
  \/ \E name \in Opt({"A"}) : v2_IndexedJS(name)
  \/ \E s \in SchemaInputs : v2_schema(s)
  \/ v2_open
  \/ v2_onupgradeneeded
  \/ v2_onsuccess
  \/ v2_onerror

SpecSchema == Init /\ [][NextSchema]_vars

NextIn ==
  \/ \E name \in Opt({"A"}) : v2_IndexedJS(name)
  \/ \E s \in InSchemaInputs : v2_schema(s)
  \/ v2_open
  \/ v2_onupgradeneeded
  \/ v2_onsuccess
  \/ v2_onerror
  \/ \E a \in InInputs : v2_in(a)

SpecIn == Init /\ [][NextIn]_vars

OpenEvents(i) ==
  \/ open_onupgradeneeded(i)
  \/ open_onsuccess(i)
  \/ open_onerror(i)

CallEvents ==
  \/ query_cursor_onsuccess
  \/ query_request_onsuccess
  \/ query_request_error
  \/ query_cursor_oncomplete
  \/ query_request_oncomplete
  \/ add_request_onsuccess
  \/ add_request_onerror
  \/ add_oncomplete
  \/ delete_request_success
  \/ delete_request_onerror
  \/ delete_oncomplete
  \/ settled

\* one instance of src/src/IndexedJS.js and every option of its operations
NextOps ==
  \/ \E o \in CtorInputsOps : IndexedJS(1, o)
  \/ OpenEvents(1)
  \/ \E o \in Opt(QueryInputs) : query(1, o, None)
  \/ \E o \in Opt(AddInputs) : add(1, o, None)
  \/ \E o \in Opt(DeleteInputs) : delete(1, o, None)
  \/ \E o \in QueryInputsTwo, sa \in StoreArrayInputs : query(1, Some(o), sa)
  \/ \E o \in AddInputsTwo, sa \in StoreArrayInputs : add(1, Some(o), sa)
  \/ \E o \in DeleteInputsTwo, sa \in StoreArrayInputs : delete(1, Some(o), sa)
  \/ CallEvents

SpecOps == Init /\ [][NextOps]_vars

\* two instances of src/src/IndexedJS.js on the databases "A" and "B"
NextTwo ==
  \/ \E i \in Inst, o \in CtorInputsTwo : IndexedJS(i, o)
  \/ \E i \in Inst : OpenEvents(i)
  \/ \E i \in Inst, o \in QueryInputsTwo : query(i, Some(o), None)
  \/ \E i \in Inst, o \in AddInputsTwo : add(i, Some(o), None)
  \/ \E i \in Inst, o \in DeleteInputsTwo : delete(i, Some(o), None)
  \/ CallEvents

SpecTwo == Init /\ [][NextTwo]_vars

\* ================================================================== claims
\* a query call that was given options
QueryWith == call.op = "query" /\ call.raw # None

\* an option whose documented default is false counts as supplied when the
\* caller gave a truthy value
KeyGiven(o) == o.key # None /\ Truthy(o.key[1])

\* a query that opened its transaction and returned normally
QueryDispatched == QueryWith /\ call.tx # None /\ call.ret = "undefined"

LookupKinds == {"openCursor", "get", "indexGet"}

\* C1: a query that reaches the lookup issues exactly one native request,
\* chosen with precedence cursor > key > index: with a cursor object a
\* cursor is opened and no get is ever issued, whatever key and index are;
\* without a cursor and with a key the get is by that key, also when an
\* index is given; a get by index is issued only when neither a cursor nor a
\* key is given.
C1_Precedence ==
  QueryWith =>
    LET o == call.raw[1]
    IN  /\ o.cursor # None => call.req.kind \notin {"get", "indexGet"}
        /\ call.req.kind = "indexGet" =>
             o.cursor = None /\ ~KeyGiven(o) /\ call.req.index = o.index
        /\ QueryDispatched =>
             /\ call.req.kind \in LookupKinds
             /\ o.cursor # None => call.req.kind = "openCursor"
             /\ (o.cursor = None /\ KeyGiven(o)) =>
                  (call.req.kind = "get" /\ call.req.key = o.key)

C1_Witness ==
  /\ QueryDispatched
  /\ call.raw[1].cursor # None /\ KeyGiven(call.raw[1]) /\ call.raw[1].index # None
  /\ call.req.kind = "openCursor"

\* C2 as stated: with a key and an index and no cursor, the index lookup is
\* the one used.
C2_IndexOverridesKey ==
  (QueryDispatched /\ call.raw[1].cursor = None
     /\ KeyGiven(call.raw[1]) /\ call.raw[1].index # None)
    => call.req.kind = "indexGet"

\* C2 amended: with a key and an index and no cursor, the lookup is the get
\* by key and the index is not used (key overrides index); with a cursor
\* next to a key or an index the request is the cursor's (cursor overrides
\* both).
C2_KeyOverridesIndex ==
  /\ (QueryDispatched /\ call.raw[1].cursor = None
        /\ KeyGiven(call.raw[1]) /\ call.raw[1].index # None)
       => (call.req.kind = "get" /\ call.req.key = call.raw[1].key
             /\ call.req.index = None)
  /\ (QueryDispatched /\ call.raw[1].cursor # None
        /\ (KeyGiven(call.raw[1]) \/ call.raw[1].index # None))
       => (call.req.kind = "openCursor" /\ call.req.key = None
             /\ call.req.index = None)

C2_Witness ==
  /\ QueryDispatched
  /\ call.raw[1].cursor = None /\ KeyGiven(call.raw[1]) /\ call.raw[1].index # None
  /\ call.req.kind = "get"

\* C3: an operation of an instance opens its transaction on the database
\* that instance's own open request names, when the two instances opened
\* different databases.
C3_OwnDatabase ==
  (call.tx # None /\ request[1].name # request[2].name)
    => call.tx[1].db = request[call.inst].name

\* C4: a query whose native request failed has forwarded the error to the
\* onerror callback of its options when one was given, and has logged it
\* when none was given.
C4_QueryErrorReported ==
  (call.op = "query" /\ call.phase = "failed")
    => IF call.options[1].onerror THEN call.nError >= 1 ELSE call.nLogged >= 1

\* the stores the schema declares under a name used once
DeclaredOnce(j) ==
  \A k \in 1..Len(_schema.stores[1]) :
     k # j => _schema.stores[1][k].name # _schema.stores[1][j].name

UpgradeHandled == IDBOpenDBRequest.state = "upgraded" /\ _schema.stores # None

\* C5: once the upgrade handler has run, every store the schema declares
\* exists in the database, whatever its keyPath, autoIncrement and indexes.
C5_DeclaredStoresExist ==
  UpgradeHandled =>
    \A j \in 1..Len(_schema.stores[1]) :
       _schema.stores[1][j].name \in DOMAIN host[IDBOpenDBRequest.name].stores

\* the indexes a store definition declares: name -> unique
DeclaredIndexes(def) == IF def.indexes = None THEN NoIndexes ELSE def.indexes[1]

\* C6: once the upgrade handler has run, the indexes of each store the
\* schema declares are exactly those of its own definition, with the
\* declared uniqueness.
C6_OwnIndexes ==
  UpgradeHandled =>
    \A j \in 1..Len(_schema.stores[1]) :
       LET def == _schema.stores[1][j]
           stores == host[IDBOpenDBRequest.name].stores
       IN  (DeclaredOnce(j) /\ def.name \in DOMAIN stores)
             => stores[def.name].indexes = DeclaredIndexes(def)

\* C7: no open request is issued for an instance whose schema lacks the
\* database name or the version.
C7_ValidatedBeforeOpen ==
  IDBOpenDBRequest.state # "none" => IDBOpenDBRequest.version # None

\* C8: a query whose options give no key, no index and no cursor returns
\* false, opens no transaction, issues no request and runs no callback.
C8_NothingToSearch ==
  (QueryWith /\ call.raw[1].key = None /\ call.raw[1].index = None
     /\ call.raw[1].cursor = None)
    => /\ call.ret = "false"
       /\ call.tx = None
       /\ call.req.kind = "none"
       /\ call.nSuccess = 0 /\ call.nError = 0 /\ call.nComplete = 0

C8_Witness ==
  /\ QueryWith
  /\ call.raw[1].key = None /\ call.raw[1].index = None /\ call.raw[1].cursor = None
  /\ call.raw[1].onsuccess /\ call.raw[1].onerror /\ call.raw[1].oncomplete
  /\ IndexedJS_db # None
  /\ call.ret = "false"

\* C9: add and delete open their transaction in mode "readwrite" whatever
\* options.mode is; query opens it in options.mode, "readonly" when the
\* caller gives none.
C9_Modes ==
  call.tx # None =>
    /\ call.op \in {"add", "delete"} => call.tx[1].mode = "readwrite"
    /\ call.op = "query" =>
         call.tx[1].mode = (IF call.raw[1].mode = None THEN "readonly"
                            ELSE call.raw[1].mode[1])

C9_Witness ==
  /\ call.op = "add"
  /\ call.tx # None
  /\ call.raw[1].mode = Some("readonly")
  /\ call.tx[1].mode = "readwrite"

\* C10: a cursor query with cursor.bound false opens its cursor with no key
\* range, whatever only, lower and upper are.
C10_UnboundCursor ==
  (QueryWith /\ call.raw[1].cursor # None /\ call.req.kind = "openCursor"
     /\ call.raw[1].cursor[1].bound = "false")
    => call.req.range.kind = "none"

\* a cursor option whose documented default is false counts as set when the
\* caller gave a truthy value
Given(x) == x # None /\ Truthy(x[1])

\* a query that opened a cursor; CursorOf is the cursor object as the caller
\* gave it
CursorOpened ==
  QueryWith /\ call.raw[1].cursor # None /\ call.req.kind = "openCursor"

CursorOf == call.raw[1].cursor[1]

\* the n-th entry of an array include, a missing entry counting as false
IncludedAt(inc, n) == Len(inc.arr) >= n /\ inc.arr[n]

CursorStep == IF Given(CursorOf.advance) THEN CursorOf.advance[1] ELSE 1

CursorKeys ==
  {k \in host[call.tx[1].db].stores[call.tx[1].store].keys : InRange(k, call.req.range)}

Landings ==
  {k \in CursorKeys : Cardinality({j \in CursorKeys : j < k}) % CursorStep = 0}

\* C12: in a cursor query the caller's onsuccess runs exactly once for each
\* record the cursor lands on, with the cursor as `this`; the cursor moves
\* by advance(n) when cursor.advance is n and by continue() otherwise, so
\* the records delivered are always among the landings and come in
\* strictly increasing key order, and when the cursor is exhausted every
\* landing has been delivered once and nothing is delivered any more.
C12_CursorSteps ==
  CursorOpened =>
    /\ call.visited \subseteq Landings
    /\ call.nSuccess = (IF call.raw[1].onsuccess THEN Cardinality(call.visited) ELSE 0)
    /\ call.nSuccess > 0 => call.thisSuccess = "cursor"
    /\ call.pos # None =>
         /\ call.phase \in {"pending", "failed"}
         /\ call.pos[1] \in Landings
         /\ \A v \in call.visited : v < call.pos[1]
    /\ (call.pos = None /\ call.phase # "failed") => call.visited = Landings

C12_Witness ==
  /\ CursorOpened
  /\ call.raw[1].onsuccess
  /\ Given(CursorOf.advance) /\ CursorOf.advance[1] > 1
  /\ call.phase = "complete"
  /\ call.nSuccess >= 1
  /\ call.visited # CursorKeys

\* an operation that was given options, opened its transaction and returned
\* normally with its request issued
Issued ==
  /\ call.op \in {"query", "add", "delete"}
  /\ call.raw # None
  /\ call.tx # None
  /\ call.ret = "undefined"

\* C13: the caller's oncomplete of a query, an add or a delete is not called
\* before the transaction of the operation completes, and when it completes
\* it is called exactly once (when the caller supplied one), with the
\* options object as `this`.
C13_OnComplete ==
  Issued =>
    /\ call.phase # "complete" => call.nComplete = 0
    /\ call.phase = "complete" =>
         /\ call.nComplete = (IF call.raw[1].oncomplete THEN 1 ELSE 0)
         /\ call.raw[1].oncomplete => call.thisComplete = "options"

C13_Witness ==
  /\ Issued
  /\ call.op = "add"
  /\ call.raw[1].oncomplete
  /\ call.phase = "complete"
  /\ call.nComplete = 1
  /\ call.thisComplete = "options"

\* C14: a key of type Number or String is used as the key, whatever its
\* value: a delete or a query (without cursor) that is given a key never
\* returns false for want of something to do, and the request it issues is
\* a delete, respectively a get, of exactly that key.
C14_AnyKey ==
  (call.op \in {"query", "delete"} /\ call.raw # None
     /\ call.raw[1].key # None /\ call.raw[1].cursor = None) =>
    /\ call.ret # "false"
    /\ call.req.kind # "none" =>
         /\ call.req.kind = (IF call.op = "delete" THEN "delete" ELSE "get")
         /\ call.req.key = call.raw[1].key

\* C15: add called without a data object returns false, opens no
\* transaction and issues no put.
C15_NoData ==
  (call.op = "add" /\ call.raw # None /\ call.raw[1].data = None) =>
    /\ call.ret = "false"
    /\ call.tx = None
    /\ call.req.kind = "none"

\* the kind of key range the first matching rule gives for the cursor
\* object of the caller
RuleOf(c) ==
  IF Given(c.only) THEN "only"
  ELSE IF Given(c.lower) /\ Given(c.upper) THEN "bound"
  ELSE IF Given(c.lower) THEN "lowerBound"
  ELSE IF Given(c.upper) THEN "upperBound"
  ELSE "none"

DeclaredNames ==
  IF _schema.stores = None THEN {}
  ELSE {_schema.stores[1][j].name : j \in 1..Len(_schema.stores[1])}

\* the requested names that are declared, in the order requested
RECURSIVE DeclaredOf(_)
DeclaredOf(names) ==
  IF names = <<>> THEN <<>>
  ELSE (IF Head(names) \in DeclaredNames THEN <<Head(names)>> ELSE <<>>)
         \o DeclaredOf(Tail(names))

\* C17: after in(stores) with a string or an array the active store set is
\* exactly the requested names that are names of declared stores, in the
\* order requested, whatever was selected before; and whatever in() was
\* called with, the active set never holds a name that is not declared.
C17_ActiveStores ==
  /\ (v2ret.op = "in" /\ v2ret.arg[1].kind \in {"string", "array"}) =>
       _in = Some(DeclaredOf(v2ret.arg[1].arr))
  /\ _in # None => \A j \in 1..Len(_in[1]) : _in[1][j] \in DeclaredNames

C17_Witness ==
  /\ v2ret.op = "in"
  /\ v2ret.arg[1].kind = "array"
  /\ v2ret.arg[1].arr = <<"X", "S1">>
  /\ _in = Some(<<"S1">>)

\* C18: a schema() call with stores that are no array, or with a missing or
\* falsy version, throws and leaves the recorded schema as it was; a call
\* with an array and a version records both and returns the instance.
C18_SchemaValidated ==
  [][(v2ret' # v2ret /\ v2ret'.op = "schema") =>
       LET s == v2ret'.arg[1]
       IN  IF s.stores.kind # "array" \/ s.version = None \/ s.version = Some(0)
           THEN v2ret'.res = "throw" /\ _schema' = _schema
           ELSE /\ v2ret'.res = "this"
                /\ _schema'.version = s.version
                /\ _schema'.stores = Some(s.stores.arr)
                /\ _schema'.database = _schema.database]_vars

C18_Witness ==
  /\ v2ret.op = "schema"
  /\ v2ret.res = "throw"
  /\ v2ret.arg[1].stores.kind = "array"
  /\ v2ret.arg[1].version = Some(0)
  /\ _schema.stores # None /\ Len(_schema.stores[1]) > 0
  /\ _schema.version = Some(2)

\* C19: when the native request of an add or a delete has failed, the
\* caller's onsuccess has not been called for it and exactly one of two
\* things has happened: with an onerror supplied it was called once and the
\* error was not logged; with none supplied the error was logged.
C19_ErrorReportedOnce ==
  (call.op \in {"add", "delete"} /\ call.phase = "failed") =>
    /\ call.nSuccess = 0
    /\ IF call.raw[1].onerror
       THEN call.nError = 1 /\ call.nLogged = 0
       ELSE call.nError = 0 /\ call.nLogged >= 1

\* C20: a query, an add or a delete called while no database handle is
\* stored opens no transaction and issues no request, and none of its
\* callbacks is called, neither then nor after the open request has
\* succeeded: the operation is dropped, not queued.
C20_Dropped ==
  (call.op \in {"query", "add", "delete"} /\ call.handle = None) =>
    /\ call.tx = None
    /\ call.req.kind = "none"
    /\ call.phase = "idle"
    /\ call.nSuccess = 0 /\ call.nError = 0 /\ call.nComplete = 0

C20_Witness ==
  /\ call.op = "delete"
  /\ call.handle = None
  /\ call.raw # None
  /\ KeyGiven(call.raw[1])
  /\ call.raw[1].onerror /\ call.raw[1].oncomplete
  /\ call.ret = "undefined"
  /\ IndexedJS_db # None
  /\ CanTransact(IndexedJS_db[1], opts[call.inst].store)
  /\ call.tx = None /\ call.nComplete = 0

\* some open request has succeeded
OpenSucceeded == \E i \in Inst : request[i].state = "success"

\* a step that calls query, add or delete
CallStep == call.op = "none" /\ call'.op \in {"query", "add", "delete"}

\* C21: when the caller's onsuccess of an open request runs, the handle of
\* that request is already stored, and it stays stored: an operation called
\* from then on that returns normally has found the handle and opened its
\* transaction.  The open onsuccess callback runs at most once for a
\* request, and never on a request whose onerror callback ran.
C21_HandleBeforeCallback ==
  [][/\ \A i \in Inst :
          /\ request'[i].nSuccess <= 1
          /\ ~(request'[i].nSuccess >= 1 /\ request'[i].nError >= 1)
          /\ request'[i].nSuccess >= 1 =>
               /\ request'[i].cbHandle # None
               /\ request'[i].cbHandle[1].db = request'[i].name
     /\ OpenSucceeded => (IndexedJS_db # None /\ IndexedJS_db' # None)
     /\ (CallStep /\ OpenSucceeded /\ call'.ret = "undefined") =>
          /\ call'.handle # None
          /\ call'.tx # None]_vars

C21_Witness ==
  \E i \in Inst :
     /\ request[i].nSuccess = 1
     /\ request[i].cbHandle # None
     /\ call.op = "query"
     /\ call.inst = i
     /\ call.tx # None
     /\ call.tx[1].db = request[i].name

====
